---- MODULE Spec2Model ----
(***************************************************************************)
(* Model of the static package-index publisher:                            *)
(*   .github/actions.py          register / update / delete (Publisher)    *)
(*   .github/download_release.py download_package_files (Artifact Resolver)*)
(*   migrate_packages.py         migrate_package (Migrator)                *)
(*                                                                         *)
(* Strings are sequences of tokens.  Package names and versions are        *)
(* sequences of one-character tokens, so that normalize, normalize_version *)
(* and is_stable are computed character by character as the code does.     *)
(* Links and file names are sequences of tokens in which fixed pieces of   *)
(* text ("git+", "@", "#egg=", ".whl", ...) are one token each.            *)
(***************************************************************************)
EXTENDS Integers, Sequences, FiniteSets, TLC

VARIABLES
    index,      \* index.html: the cards after the header, in document order
    pages,      \* <norm name> |-> parsed <norm name>/index.html (the directory exists iff in DOMAIN)
    packages,   \* <norm name> |-> files in packages/<norm name>/ (the directory exists iff in DOMAIN)
    template,   \* whether pkg_template.html is present
    last,       \* the last Publisher call: its arguments, outcome and the index it started from
    res,        \* the last stand-alone resolver call: arguments, environment, result and what it did
    nv,         \* version normalisation: the input and what was computed from it
    mig         \* the Migrator: the page on disk, and the last migrate_package call

vars == <<index, pages, packages, template, last, res, nv, mig>>

(***************************************************************************)
(* Strings                                                                 *)
(***************************************************************************)

\* Python's None (and the empty string): both are falsy where the code tests them.
None == <<>>

\* str.lower() on the characters the inputs are drawn from.
LowerChar(c) ==
    CASE c = "V" -> "v"
      [] c = "F" -> "f"
      [] c = "A" -> "a"
      [] c = "B" -> "b"
      [] OTHER -> c

Lower(s) == [i \in 1..Len(s) |-> LowerChar(s[i])]

\* s.startswith(p)
StartsWith(s, p) == Len(s) >= Len(p) /\ SubSeq(s, 1, Len(p)) = p

\* s.endswith(p)
EndsWith(s, p) == Len(s) >= Len(p) /\ SubSeq(s, Len(s) - Len(p) + 1, Len(s)) = p

\* sub in s
Contains(s, sub) ==
    \E i \in 1..(Len(s) - Len(sub) + 1) : SubSeq(s, i, i + Len(sub) - 1) = sub

\* s.replace(a, b) for one-character a and b
ReplaceChar(s, a, b) == [i \in 1..Len(s) |-> IF s[i] = a THEN b ELSE s[i]]

\* the position of the last token t in s, 0 when there is none
LastIndexOf(s, t) ==
    IF \E i \in 1..Len(s) : s[i] = t
    THEN CHOOSE i \in 1..Len(s) : s[i] = t /\ \A j \in (i+1)..Len(s) : s[j] # t
    ELSE 0

\* the position of the first token t in s, 0 when there is none
FirstIndexOf(s, t) ==
    IF \E i \in 1..Len(s) : s[i] = t
    THEN CHOOSE i \in 1..Len(s) : s[i] = t /\ \A j \in 1..(i-1) : s[j] # t
    ELSE 0

\* s.split('/')[-1], and os.path.basename(s)
Basename(s) == SubSeq(s, LastIndexOf(s, "/") + 1, Len(s))

\* os.path.join(a, b)
PathJoin(a, b) == a \o <<"/">> \o b

(***************************************************************************)
(* actions.py: names and versions                                          *)
(***************************************************************************)

INDEX_FILE == <<"index.html">>
PACKAGES_DIR == <<"packages">>

IsSeparator(c) == c \in {"-", "_", "."}

\* re.sub(r"[-_.]+", "-", name): every maximal run of separators becomes one "-"
RECURSIVE CollapseSeparators(_)
CollapseSeparators(s) ==
    IF s = <<>> THEN <<>>
    ELSE IF IsSeparator(Head(s))
         THEN IF Len(s) > 1 /\ IsSeparator(s[2])
              THEN CollapseSeparators(Tail(s))
              ELSE <<"-">> \o CollapseSeparators(Tail(s))
         ELSE <<Head(s)>> \o CollapseSeparators(Tail(s))

\* actions.py 34-36
normalize(name) == Lower(CollapseSeparators(name))

\* normalize_version without the removal of the prefix
normalize_version_keep_prefix(version) == Lower(version)

\* actions.py 39-41

normalize_version(version) ==
    LET v == Lower(version)
    IN  IF StartsWith(v, <<"v">>) THEN Tail(v) ELSE v

\* is_stable without the "a" marker
is_stable_ignoring_a(version) ==
    ~ (Contains(version, <<"d", "e", "v">>) \/ Contains(version, <<"b">>)
       \/ Contains(version, <<"r", "c">>))

\* actions.py 44-45
is_stable(version) ==
    ~ (Contains(version, <<"d", "e", "v">>) \/ Contains(version, <<"a">>)
       \/ Contains(version, <<"b">>) \/ Contains(version, <<"r", "c">>))

(***************************************************************************)
(* download_release.py: the Artifact Resolver                              *)
(*                                                                         *)
(* What the network and the build tool answer during one call is the       *)
(* call's environment env:                                                 *)
(*   env.resp[i]   the hosting API's answer to the i-th query of the call: *)
(*                 code "200" with the release's assets, "404", or "500"   *)
(*                 (any other HTTP or network error)                       *)
(*   env.dlWheel, env.dlTar   whether download_file succeeds               *)
(*   env.builds[i] the i-th build-from-source of the call: whether clone,  *)
(*                 pip and build succeed, and the files the build leaves   *)
(***************************************************************************)

\* the tags as they would be if the alternate were always the version with a "v" added
VersionsToTryAlwaysPrefixed(version) == <<version, <<"v">> \o version>>

\* download_release.py 35-39
VersionsToTry(version) ==
    <<version>>
    \o (IF ~ StartsWith(version, <<"v">>) THEN << <<"v">> \o version >> ELSE <<>>)
    \o (IF StartsWith(version, <<"v">>) THEN << Tail(version) >> ELSE <<>>)

\* download_release.py 41-53: the loop, from the i-th tag on
RECURSIVE TryTags(_, _, _)
TryTags(env, tags, i) ==
    IF i > Len(tags)
    THEN [raised |-> TRUE, assets |-> <<>>, queries |-> tags]
    ELSE LET r == env.resp[i]
         IN  IF r.code = "200"
             THEN [raised |-> FALSE, assets |-> r.assets, queries |-> SubSeq(tags, 1, i)]
             ELSE IF r.code = "404"
                  THEN TryTags(env, tags, i + 1)
                  ELSE [raised |-> TRUE, assets |-> <<>>, queries |-> SubSeq(tags, 1, i)]

\* download_release.py 19-53
get_release_assets(env, repo_url, version) == TryTags(env, VersionsToTry(version), 1)

\* download_release.py 80-92: the loop, over the assets from the i-th on
RECURSIVE FindFrom(_, _, _, _)
FindFrom(assets, package_name, i, found) ==
    IF i > Len(assets) THEN found
    ELSE LET name == assets[i].name
             url  == assets[i].browser_download_url
         IN  IF EndsWith(name, <<".whl">>)
                /\ Contains(name, ReplaceChar(package_name, "-", "_"))
             THEN FindFrom(assets, package_name, i + 1, [found EXCEPT !.wheel_url = url])
             ELSE IF EndsWith(name, <<".tar.gz">>)
                  THEN FindFrom(assets, package_name, i + 1, [found EXCEPT !.tar_gz_url = url])
                  ELSE FindFrom(assets, package_name, i + 1, found)

\* find_package_files taking any wheel, whatever package it names
find_package_files_any_wheel(assets, package_name) ==
    LET whl == {i \in 1..Len(assets) : EndsWith(assets[i].name, <<".whl">>)}
        tar == {i \in 1..Len(assets) : EndsWith(assets[i].name, <<".tar.gz">>)}
        Max(S) == CHOOSE i \in S : \A j \in S : j <= i
    IN  [wheel_url  |-> IF whl = {} THEN None ELSE assets[Max(whl)].browser_download_url,
         tar_gz_url |-> IF tar = {} THEN None ELSE assets[Max(tar)].browser_download_url]

\* download_release.py 70-92
find_package_files(assets, package_name) ==
    FindFrom(assets, package_name, 1, [wheel_url |-> None, tar_gz_url |-> None])

\* download_release.py 127-135: the loop over os.listdir(temp_dir)
RECURSIVE CopyBuilt(_, _, _, _)
CopyBuilt(listing, output_dir, i, acc) ==
    IF i > Len(listing) THEN acc
    ELSE LET file == listing[i]
         IN  IF EndsWith(file, <<".whl">>)
             THEN CopyBuilt(listing, output_dir, i + 1,
                      [acc EXCEPT !.wheel = PathJoin(output_dir, file),
                                  !.files = @ \union {file}])
             ELSE IF EndsWith(file, <<".tar.gz">>)
                  THEN CopyBuilt(listing, output_dir, i + 1,
                           [acc EXCEPT !.tar_gz = PathJoin(output_dir, file),
                                       !.files = @ \union {file}])
                  ELSE CopyBuilt(listing, output_dir, i + 1, acc)

\* download_release.py 95-137; b is the environment's answer to this build
build_from_source(b, repo_url, version, package_name, output_dir, files) ==
    IF ~ b.ok
    THEN [raised |-> TRUE, wheel |-> None, tar_gz |-> None, files |-> files]
    ELSE CopyBuilt(b.listing, output_dir, 1,
             [raised |-> FALSE, wheel |-> None, tar_gz |-> None, files |-> files])

\* download_release.py 193-208: the handler of any exception of the try block.
\* rel is what the release lookup gave, built the number of builds the try block
\* has started, files the output directory as the try block left it, downloads
\* the downloads it started.
BuildFallback(env, repo_url, version, package_name, output_dir, files, rel, built, downloads) ==
    LET b == build_from_source(env.builds[built + 1], repo_url, version,
                               package_name, output_dir, files)
    IN  [raised |-> b.raised, wheel |-> b.wheel, tar_gz |-> b.tar_gz,
         version |-> version, files |-> b.files,
         queries |-> rel.queries, found |-> ~ rel.raised,
         builds |-> built + 1, downloads |-> downloads]

\* download_release.py 182-191: no asset was selected; b is the build of line 185
BuildInTry(env, repo_url, version, package_name, output_dir, files, rel, b) ==
    IF b.raised
    THEN BuildFallback(env, repo_url, version, package_name, output_dir,
                       b.files, rel, 1, <<>>)
    ELSE [raised |-> FALSE, wheel |-> b.wheel, tar_gz |-> b.tar_gz,
          version |-> version, files |-> b.files,
          queries |-> rel.queries, found |-> TRUE,
          builds |-> 1, downloads |-> <<>>]

\* download_release.py 160-191: the release rel was found and f selected from it
DownloadSelected(env, repo_url, version, package_name, output_dir, files, rel, f) ==
    LET wheel_name == Basename(f.wheel_url)
        tar_name   == Basename(f.tar_gz_url)
        getWheel == f.wheel_url # None /\ wheel_name \notin files
        files1   == IF f.wheel_url # None /\ (~ getWheel \/ env.dlWheel)
                    THEN files \union {wheel_name} ELSE files
        dl1      == IF getWheel THEN <<wheel_name>> ELSE <<>>
        getTar   == f.tar_gz_url # None /\ tar_name \notin files1
        files2   == IF f.tar_gz_url # None /\ (~ getTar \/ env.dlTar)
                    THEN files1 \union {tar_name} ELSE files1
        dl2      == IF getTar THEN dl1 \o <<tar_name>> ELSE dl1
    IN  IF getWheel /\ ~ env.dlWheel
        THEN BuildFallback(env, repo_url, version, package_name, output_dir, files, rel, 0, dl1)
        ELSE IF getTar /\ ~ env.dlTar
        THEN BuildFallback(env, repo_url, version, package_name, output_dir, files1, rel, 0, dl2)
        ELSE IF f.wheel_url = None /\ f.tar_gz_url = None
        THEN BuildInTry(env, repo_url, version, package_name, output_dir, files, rel,
                        build_from_source(env.builds[1], repo_url, version,
                                          package_name, output_dir, files))
        ELSE [raised |-> FALSE,
              wheel  |-> IF f.wheel_url # None THEN PathJoin(output_dir, wheel_name) ELSE None,
              tar_gz |-> IF f.tar_gz_url # None THEN PathJoin(output_dir, tar_name) ELSE None,
              version |-> version, files |-> files2,
              queries |-> rel.queries, found |-> TRUE,
              builds |-> 0, downloads |-> dl2]

\* download_release.py 155-208, with rel the outcome of get_release_assets (line 157)
DownloadFrom(env, repo_url, version, package_name, output_dir, files, rel) ==
    IF rel.raised
    THEN BuildFallback(env, repo_url, version, package_name, output_dir, files, rel, 0, <<>>)
    ELSE DownloadSelected(env, repo_url, version, package_name, output_dir, files, rel,
                          find_package_files(rel.assets, package_name))

\* download_release.py 140-208.  files is the content of output_dir (which
\* line 153 creates).  The result carries, beside the returned dict (wheel,
\* tar_gz, version) or the exception (raised), what the call did: the tags it
\* queried, whether a release was found, the builds it started, the files it
\* downloaded, and the content of output_dir afterwards.
download_package_files(env, repo_url, version, package_name, output_dir, files) ==
    DownloadFrom(env, repo_url, version, package_name, output_dir, files,
                 get_release_assets(env, repo_url, version))

(***************************************************************************)
(* actions.py: the Publisher                                               *)
(*                                                                         *)
(* index.html is the sequence of its cards, first card first.  A card is   *)
(* the anchor of INDEX_CARD_HTML: href, the raw name, and the version and  *)
(* description spans.  A per-package page holds what the code reads and    *)
(* writes of it: the header (name, latest label), the repoHomepage         *)
(* button's onclick (None when the page has no such button), the           *)
(* latest-main-version span, and the divs of the versions section, each    *)
(* with its id, class and the href, text and title of its anchor.          *)
(***************************************************************************)

\* actions.py 19-31 with 117-121 applied
Card(norm_pkg_name, pkg_name, norm_version, short_desc) ==
    [href |-> norm_pkg_name \o <<"/">>, name |-> pkg_name,
     version |-> norm_version, description |-> short_desc]

\* package_exists comparing the href with the name without its trailing "/"
package_exists_no_slash(soup, package_name) ==
    \E i \in 1..Len(soup) : soup[i].href = package_name

\* actions.py 48-53
package_exists(soup, package_name) ==
    \E i \in 1..Len(soup) : soup[i].href = package_name \o <<"/">>

\* soup.find('a', attrs={"href": ...}): the first such anchor, 0 when none
FindAnchor(soup, norm_pkg_name) ==
    IF package_exists(soup, norm_pkg_name)
    THEN CHOOSE i \in 1..Len(soup) :
             /\ soup[i].href = norm_pkg_name \o <<"/">>
             /\ \A j \in 1..(i-1) : soup[j].href # norm_pkg_name \o <<"/">>
    ELSE 0

\* the segments of s between the "/" tokens (str.split('/'))
RECURSIVE Split(_)
Split(s) ==
    LET k == FirstIndexOf(s, "/")
    IN  IF k = 0 THEN <<s>>
        ELSE <<SubSeq(s, 1, k - 1)>> \o Split(SubSeq(s, k + 1, Len(s)))

\* s.rstrip('/')
RECURSIVE RStrip(_)
RStrip(s) == IF s # <<>> /\ s[Len(s)] = "/" THEN RStrip(SubSeq(s, 1, Len(s) - 1)) ELSE s

\* actions.py 56-63
transform_github_url(input_url) ==
    LET parts == Split(RStrip(input_url))
        username == parts[Len(parts) - 1]
        repo == parts[Len(parts)]
    IN  <<"https://raw.githubusercontent.com", "/">> \o username \o <<"/">> \o repo
        \o <<"/", "main", "/", "README.md">>

\* actions.py 111: the dict register and update continue with when the resolver raised
NoFiles(homepage) == [wheel |-> None, tar_gz |-> None, homepage |-> homepage]

\* the resolver's returned dict, which has no 'homepage' key: .get("homepage", "") is ""
FilesOf(r) == [wheel |-> r.wheel, tar_gz |-> r.tar_gz, homepage |-> <<>>]

\* get_package_links with the egg parameter the older pages carry
get_package_links_with_egg(norm_pkg_name, norm_version, version, package_files) ==
    LET base_url == <<"..", "/", "packages", "/">> \o norm_pkg_name \o <<"/">>
    IN  IF package_files.wheel # None
        THEN [href |-> base_url \o Basename(package_files.wheel), text |-> norm_version]
        ELSE IF package_files.tar_gz # None
        THEN [href |-> base_url \o Basename(package_files.tar_gz), text |-> norm_version]
        ELSE [href |-> <<"git+">> \o package_files.homepage \o <<"@">> \o version
                       \o <<"#egg=">> \o norm_pkg_name,
              text |-> norm_version]

\* actions.py 66-87: the anchor the returned HTML describes
get_package_links(norm_pkg_name, norm_version, version, package_files) ==
    LET base_url == <<"..", "/", "packages", "/">> \o norm_pkg_name \o <<"/">>
    IN  IF package_files.wheel # None
        THEN [href |-> base_url \o Basename(package_files.wheel), text |-> norm_version]
        ELSE IF package_files.tar_gz # None
        THEN [href |-> base_url \o Basename(package_files.tar_gz), text |-> norm_version]
        ELSE [href |-> <<"git+">> \o package_files.homepage \o <<"@">> \o version,
              text |-> norm_version]

\* actions.py 128-147: pkg_template.html with its placeholders filled in.  The
\* template is laid out as the code that reads the pages expects: the header
\* with the name and the latest label, the repoHomepage button, the
\* latest-main-version span, and one div in the versions section holding _link.
PageFromTemplate(pkg_name, norm_version, version, package_links, homepage, author, long_desc) ==
    [name |-> pkg_name,
     latest |-> version,
     author |-> author,
     long_description |-> long_desc,
     homepage_onclick |-> <<"openLinkInNewTab('">> \o homepage \o <<"')">>,
     latest_main |-> version,
     versions |-> << [id |-> version, class |-> <<>>,
                      href |-> package_links.href, text |-> package_links.text,
                      title |-> None] >>]

\* what a call leaves in `last`
\* what a call leaves in `last`: its arguments, whether it returned (ok) or raised,
\* whether it ran the resolver and whether the resolver raised.  A successful
\* register remembers the index it started from (pre); a successful delete that
\* directly follows a successful register of the same normalized name (undoes)
\* carries that index on.
Done(op, pkg_name, version, homepage, ok, r) ==
    LET undoes == /\ op = "delete" /\ ok /\ last.op = "register" /\ last.ok
                  /\ normalize(last.pkg_name) = normalize(pkg_name)
    IN  [op |-> op, pkg_name |-> pkg_name, version |-> version,
         homepage |-> homepage, ok |-> ok,
         pre |-> IF op = "register" /\ ok THEN index
                 ELSE IF undoes THEN last.pre ELSE <<>>,
         undoes |-> undoes,
         resolved |-> r.resolved, raised |-> r.raised]

\* the part of a resolver result kept in `last`; NotResolved when the call made none
Resolved(r) == [resolved |-> TRUE, raised |-> r.raised]
NotResolved == [resolved |-> FALSE, raised |-> FALSE]

OutputDir(norm_pkg_name) == PathJoin(PACKAGES_DIR, norm_pkg_name)

\* the content of packages/<norm_pkg_name>/, empty when the directory does not exist yet
FilesIn(norm_pkg_name) ==
    IF norm_pkg_name \in DOMAIN packages THEN packages[norm_pkg_name] ELSE {}

\* f with x mapped to v, x added to the domain when it is not in it
Put(f, x, v) == [y \in DOMAIN f \union {x} |-> IF y = x THEN v ELSE f[y]]

\* f without x
Drop(f, x) == [y \in DOMAIN f \ {x} |-> f[y]]

(***************************************************************************)
(* Inputs and environments                                                 *)
(***************************************************************************)

\* the most version entries a page is grown to
MaxEntries == 2

PkgNames == { <<"f", "-", "b">>, <<"F", "_", ".", "b">> }
Versions == { <<"1">>, <<"v", "2">>, <<"2", "a", "1">> }
Homepages == { <<"https:", "/", "/", "github.com", "/", "u", "/", "r">> }
Authors == { <<"ann">> }
Descriptions == { <<"d">> }

DownloadBase == <<"https:", "/", "/", "github.com", "/", "u", "/", "r", "/",
                  "releases", "/", "download", "/">>
Asset(name) == [name |-> name, browser_download_url |-> DownloadBase \o name]
WheelAsset == Asset(<<"f", "_", "b", "-", "py3", ".whl">>)
TarAsset == Asset(<<"f", "-", "b", ".tar.gz">>)
AssetLists == { <<>>, <<TarAsset>>, <<WheelAsset, TarAsset>> }

Responses ==
    { [code |-> "404", assets |-> <<>>], [code |-> "500", assets |-> <<>>] }
    \union { [code |-> "200", assets |-> a] : a \in AssetLists }

\* a build fails, or leaves the clone, a wheel and a source tarball in temp_dir
BuildResults ==
    { [ok |-> FALSE, listing |-> <<>>],
      [ok |-> TRUE,
       listing |-> << <<"repo">>, <<"built", ".whl">>, <<"built", ".tar.gz">> >>] }

HasAsset(resp, ext) ==
    \E i \in 1..Len(resp.assets) : EndsWith(resp.assets[i].name, <<ext>>)

\* The environments of one call.  An answer the call can never ask for is fixed
\* (a second query is made only after a 404, a second build only after a failed
\* one, a download only of an asset of the release found), so that two
\* environments differ only where a call can tell them apart.
Envs ==
    { e \in [resp : [1..2 -> Responses], dlWheel : BOOLEAN, dlTar : BOOLEAN,
             builds : [1..2 -> BuildResults]] :
        /\ e.resp[1].code # "404" => e.resp[2].code = "404"
        /\ e.builds[1].ok => ~ e.builds[2].ok
        /\ ~ (HasAsset(e.resp[1], ".whl") \/ HasAsset(e.resp[2], ".whl")) => e.dlWheel
        /\ ~ (HasAsset(e.resp[1], ".tar.gz") \/ HasAsset(e.resp[2], ".tar.gz")) => e.dlTar }

Found(assets) == [code |-> "200", assets |-> assets]
NotFound == [code |-> "404", assets |-> <<>>]
BuildFails == [ok |-> FALSE, listing |-> <<>>]
BuildWorks == CHOOSE b \in BuildResults : b.ok

\* The environments the Migrator's calls are run in: no release under either tag
\* and a failing or a working build, a release under the alternate tag with only
\* a tarball, a release with a wheel and a tarball, and a release without assets
\* whose build fails.
CallerEnvs ==
    { e \in Envs :
        \/ /\ e.resp = <<NotFound, NotFound>>
           /\ e.builds \in { <<BuildFails, BuildFails>>, <<BuildWorks, BuildFails>> }
        \/ /\ e.resp = <<NotFound, Found(<<TarAsset>>)>>
           /\ e.dlTar /\ e.builds = <<BuildFails, BuildFails>>
        \/ /\ e.resp = <<Found(<<WheelAsset, TarAsset>>), NotFound>>
           /\ e.dlWheel /\ e.dlTar /\ e.builds = <<BuildFails, BuildFails>>
        \/ /\ e.resp = <<Found(<<>>), NotFound>>
           /\ e.builds = <<BuildFails, BuildFails>> }

\* The environments the Publisher's calls are run in, one for each kind of link
\* a page can get: no release and a failing build (resolution fails), a release
\* under the alternate tag with only a tarball, a release with a wheel and a tarball.
PublisherEnvs ==
    { e \in CallerEnvs :
        \/ e.resp = <<NotFound, NotFound>> /\ e.builds = <<BuildFails, BuildFails>>
        \/ e.resp = <<NotFound, Found(<<TarAsset>>)>>
        \/ e.resp = <<Found(<<WheelAsset, TarAsset>>), NotFound>> }

(***************************************************************************)
(* Publisher: the three operations                                         *)
(***************************************************************************)

\* actions.py 113-147: register from the resolver's outcome r on
RegisterResolved(pkg_name, version, author, short_desc, homepage, r) ==
    LET long_desc == transform_github_url(homepage)
        norm_pkg_name == normalize(pkg_name)
        norm_version == normalize_version(version)
        package_files == IF r.raised THEN NoFiles(homepage) ELSE FilesOf(r)
        new_package == Card(norm_pkg_name, pkg_name, norm_version, short_desc)
        package_links == get_package_links(norm_pkg_name, norm_version, version, package_files)
    IN  /\ packages' = Put(packages, norm_pkg_name, r.files)
        /\ index' = <<new_package>> \o index
        /\ IF template /\ norm_pkg_name \notin DOMAIN pages
           THEN /\ pages' = Put(pages, norm_pkg_name,
                                PageFromTemplate(pkg_name, norm_version, version,
                                    package_links, homepage, author, long_desc))
                /\ last' = Done("register", pkg_name, version, homepage, TRUE, Resolved(r))
           ELSE /\ pages' = pages
                /\ last' = Done("register", pkg_name, version, homepage, FALSE, Resolved(r))

\* actions.py 90-147
register(env, pkg_name, version, author, short_desc, homepage) ==
    IF package_exists(index, normalize(pkg_name))
    THEN /\ last' = Done("register", pkg_name, version, homepage, FALSE, NotResolved)
         /\ UNCHANGED <<index, pages, packages>>
    ELSE RegisterResolved(pkg_name, version, author, short_desc, homepage,
             download_package_files(env, homepage, version, pkg_name,
                 OutputDir(normalize(pkg_name)), FilesIn(normalize(pkg_name))))

\* actions.py 192-229: the page with the div of the new version added
AddVersion(page, norm_pkg_name, norm_version, version, package_files, homepage) ==
    LET original_div == page.versions[Len(page.versions)]
        base_url == <<"..", "/", "packages", "/">> \o norm_pkg_name \o <<"/">>
        new_div ==
            [id |-> version,
             class |-> IF ~ is_stable(version) THEN <<"prerelease">> ELSE <<>>,
             text |-> norm_version,
             href |-> IF package_files.wheel # None
                      THEN base_url \o Basename(package_files.wheel)
                      ELSE IF package_files.tar_gz # None
                      THEN base_url \o Basename(package_files.tar_gz)
                      ELSE <<"git+">> \o homepage \o <<"@">> \o version,
             title |-> IF package_files.wheel # None
                       THEN Basename(package_files.wheel)
                       ELSE IF package_files.tar_gz # None
                       THEN Basename(package_files.tar_gz)
                       ELSE original_div.title]
    IN  [page EXCEPT !.versions = Append(@, new_div),
                     !.latest_main = IF is_stable(version) THEN version ELSE @,
                     !.latest = IF is_stable(version) THEN version ELSE @]

\* the index as it is when the changed soup is not written back
SetCardVersionUnsaved(soup, norm_pkg_name, norm_version) == soup

\* actions.py 160-166: the index with the card's version replaced
SetCardVersion(soup, norm_pkg_name, norm_version) ==
    [soup EXCEPT ![FindAnchor(soup, norm_pkg_name)].version = norm_version]

\* actions.py 192-233: update from the resolver's outcome r on
UpdateResolved(pkg_name, version, homepage, r) ==
    LET norm_pkg_name == normalize(pkg_name)
        norm_version == normalize_version(version)
        package_files == IF r.raised THEN NoFiles(homepage) ELSE FilesOf(r)
    IN  /\ packages' = Put(packages, norm_pkg_name, r.files)
        /\ pages' = [pages EXCEPT ![norm_pkg_name] =
                       AddVersion(@, norm_pkg_name, norm_version,
                                  version, package_files, homepage)]
        /\ last' = Done("update", pkg_name, version, None, TRUE, Resolved(r))

\* actions.py 173-178: the homepage in the onclick of the page's button
HomepageOf(page) == SubSeq(page.homepage_onclick, 2, Len(page.homepage_onclick) - 1)

\* actions.py 150-233
update(env, pkg_name, version) ==
    LET soup == index
        norm_pkg_name == normalize(pkg_name)
        norm_version == normalize_version(version)
    IN  IF ~ package_exists(soup, norm_pkg_name)
        THEN /\ last' = Done("update", pkg_name, version, None, FALSE, NotResolved)
             /\ UNCHANGED <<index, pages, packages>>
        ELSE /\ index' = IF is_stable(version)
                         THEN SetCardVersion(soup, norm_pkg_name, norm_version)
                         ELSE index
             /\ IF norm_pkg_name \notin DOMAIN pages
                THEN /\ last' = Done("update", pkg_name, version, None, FALSE, NotResolved)
                     /\ UNCHANGED <<pages, packages>>
                ELSE IF pages[norm_pkg_name].homepage_onclick = None
                THEN /\ last' = Done("update", pkg_name, version, None, FALSE, NotResolved)
                     /\ UNCHANGED <<pages, packages>>
                ELSE UpdateResolved(pkg_name, version, HomepageOf(pages[norm_pkg_name]),
                         download_package_files(env, HomepageOf(pages[norm_pkg_name]),
                             version, pkg_name, OutputDir(norm_pkg_name),
                             FilesIn(norm_pkg_name)))

\* delete as it was before it removed the artifact directory
delete_keeping_artifacts(pkg_name) ==
    LET soup == index
        norm_pkg_name == normalize(pkg_name)
        k == FindAnchor(soup, norm_pkg_name)
    IN  IF ~ package_exists(soup, norm_pkg_name) \/ norm_pkg_name \notin DOMAIN pages
        THEN /\ last' = Done("delete", pkg_name, None, None, FALSE, NotResolved)
             /\ UNCHANGED <<index, pages, packages>>
        ELSE /\ pages' = Drop(pages, norm_pkg_name)
             /\ packages' = packages
             /\ index' = SubSeq(soup, 1, k - 1) \o SubSeq(soup, k + 1, Len(soup))
             /\ last' = Done("delete", pkg_name, None, None, TRUE, NotResolved)

\* actions.py 236-257
delete(pkg_name) ==
    LET soup == index
        norm_pkg_name == normalize(pkg_name)
        k == FindAnchor(soup, norm_pkg_name)
    IN  IF ~ package_exists(soup, norm_pkg_name) \/ norm_pkg_name \notin DOMAIN pages
        THEN /\ last' = Done("delete", pkg_name, None, None, FALSE, NotResolved)
             /\ UNCHANGED <<index, pages, packages>>
        ELSE /\ pages' = Drop(pages, norm_pkg_name)
             /\ packages' = Drop(packages, norm_pkg_name)
             /\ index' = SubSeq(soup, 1, k - 1) \o SubSeq(soup, k + 1, Len(soup))
             /\ last' = Done("delete", pkg_name, None, None, TRUE, NotResolved)

Register ==
    /\ \E env \in PublisherEnvs, pkg_name \in PkgNames, version \in Versions,
          author \in Authors, short_desc \in Descriptions, homepage \in Homepages :
          register(env, pkg_name, version, author, short_desc, homepage)
    /\ UNCHANGED <<template, res, nv, mig>>

Update ==
    /\ \E env \in PublisherEnvs, pkg_name \in PkgNames, version \in Versions :
          /\ normalize(pkg_name) \in DOMAIN pages
                => Len(pages[normalize(pkg_name)].versions) < MaxEntries
          /\ update(env, pkg_name, version)
    /\ UNCHANGED <<template, res, nv, mig>>

Delete ==
    /\ \E pkg_name \in PkgNames : delete(pkg_name)
    /\ UNCHANGED <<template, res, nv, mig>>

\* nothing of the stand-alone resolver, the normalisation check or the Migrator
Idle == [none |-> TRUE]

\* the site before the first call: empty, or with one package "q" registered earlier
QName == <<"q">>
QPage ==
    PageFromTemplate(QName, <<"1">>, <<"1">>,
                     [href |-> <<"git+">> \o <<"hq">> \o <<"@", "1">>, text |-> <<"1">>],
                     <<"hq">>, <<"ann">>, <<"rq">>)

NoCall ==
    [op |-> "none", pkg_name |-> None, version |-> None, homepage |-> None,
     ok |-> TRUE, pre |-> <<>>, undoes |-> FALSE, resolved |-> FALSE, raised |-> FALSE]

Init ==
    /\ \/ /\ index = <<>>
          /\ pages = <<>>
       \/ /\ index = << Card(QName, QName, <<"1">>, <<"dq">>) >>
          /\ pages = Put(<<>>, QName, QPage)
    /\ packages = <<>>
    /\ template \in BOOLEAN
    /\ last = NoCall
    /\ res = Idle
    /\ nv = Idle
    /\ mig = Idle

Next == Register \/ Update \/ Delete

Spec == Init /\ [][Next]_vars

(***************************************************************************)
(* Publisher: properties                                                   *)
(***************************************************************************)

NormOf(call) == normalize(call.pkg_name)

\* the card of normalized name n in soup (there is one)
CardOf(soup, n) == soup[CHOOSE i \in 1..Len(soup) : soup[i].href = n \o <<"/">>]

LastEntry(page) == page.versions[Len(page.versions)]

\* the spec's pre-release markers, as substrings
HasPreReleaseMarker(v) ==
    \/ Contains(v, <<"d", "e", "v">>) \/ Contains(v, <<"a">>)
    \/ Contains(v, <<"b">>) \/ Contains(v, <<"r", "c">>)

\* C1: a successful delete directly after a successful register of the same
\* normalized name leaves the index as it was before the register (same cards,
\* same order), and neither the package's directory nor its artifact directory
\* exists, whether the register's resolver call raised or not.
C1_RegisterDeleteRestores ==
    last.undoes =>
        /\ index = last.pre
        /\ NormOf(last) \notin DOMAIN pages
        /\ NormOf(last) \notin DOMAIN packages

\* C1 witness: such a delete has happened on an index that holds another card.
C1_Witness ==
    /\ last.undoes
    /\ index # <<>>
    /\ index = last.pre

\* C2: a successful update with a version that carries a pre-release marker leaves
\* the index (so the card's version) and the page's latest labels as they were, and
\* appends exactly one entry to the page's version list, of class prerelease.
C2_UnstableUpdateKeepsLatest ==
    [][ (last'.op = "update" /\ last'.ok /\ HasPreReleaseMarker(last'.version)) =>
          LET n == NormOf(last')
          IN  /\ index' = index
              /\ pages'[n].latest = pages[n].latest
              /\ pages'[n].latest_main = pages[n].latest_main
              /\ Len(pages'[n].versions) = Len(pages[n].versions) + 1
              /\ SubSeq(pages'[n].versions, 1, Len(pages[n].versions)) = pages[n].versions
              /\ LastEntry(pages'[n]).class = <<"prerelease">>
              /\ LastEntry(pages'[n]).id = last'.version ]_vars

\* C2 witness: a pre-release update has succeeded on a page whose first entry is stable.
C2_Witness ==
    /\ last.op = "update" /\ last.ok /\ HasPreReleaseMarker(last.version)
    /\ Len(pages[NormOf(last)].versions) = 2
    /\ LastEntry(pages[NormOf(last)]).class = <<"prerelease">>
    /\ pages[NormOf(last)].latest # last.version

\* C3 (as claimed): after a successful update with a stable version the card's
\* version label and the page's latest labels show the same string, and the
\* appended entry is not marked pre-release.
C3_StableUpdateSameLabel ==
    (last.op = "update" /\ last.ok /\ ~ HasPreReleaseMarker(last.version)) =>
        LET n == NormOf(last)
        IN  /\ CardOf(index, n).version = pages[n].latest
            /\ pages[n].latest = pages[n].latest_main
            /\ LastEntry(pages[n]).class # <<"prerelease">>

\* C3 (amended): after a successful update with a stable version v the card shows
\* v normalized (lower case, one leading "v" removed), both latest labels of the
\* page show v as it was given, and the appended entry is not marked pre-release.
C3_StableUpdateAdvancesBoth ==
    (last.op = "update" /\ last.ok /\ ~ HasPreReleaseMarker(last.version)) =>
        LET n == NormOf(last)
            v == last.version
        IN  /\ CardOf(index, n).version
                 = [i \in 1..Len(IF v[1] \in {"v", "V"} THEN Tail(v) ELSE v) |->
                      LowerChar((IF v[1] \in {"v", "V"} THEN Tail(v) ELSE v)[i])]
            /\ pages[n].latest = v
            /\ pages[n].latest_main = v
            /\ LastEntry(pages[n]).id = v
            /\ LastEntry(pages[n]).class # <<"prerelease">>

\* C3 witness: an update to "v2" of a package registered at "2a1" has succeeded.
C3_Witness ==
    /\ last.op = "update" /\ last.ok /\ last.version = <<"v", "2">>
    /\ CardOf(index, NormOf(last)).version = <<"2">>
    /\ pages[NormOf(last)].latest = <<"v", "2">>
    /\ pages[NormOf(last)].versions[1].id = <<"2", "a", "1">>

\* C4: the index never holds two cards of one normalized name, and a register of
\* a name whose normalized form is listed raises and leaves the index as it was.
NoDuplicateCards ==
    \A i, j \in 1..Len(index) : index[i].href = index[j].href => i = j

C4_OneCardPerName ==
    [][ /\ NoDuplicateCards'
        /\ (last'.op = "register"
            /\ \E i \in 1..Len(index) : index[i].href = NormOf(last') \o <<"/">>)
           => (~ last'.ok /\ index' = index) ]_vars

\* C4 witness: a register of "F_.b" was refused while the card of "f-b" is listed.
C4_Witness ==
    /\ last.op = "register" /\ ~ last.ok /\ ~ last.resolved
    /\ last.pkg_name = <<"F", "_", ".", "b">>
    /\ \E i \in 1..Len(index) : index[i].name = <<"f", "-", "b">>
    /\ NoDuplicateCards

\* C5: a register whose resolver call raised (no release under either tag, build
\* failed) adds the card, fails only where any register fails (template absent,
\* directory present), and the page it creates links to git+<homepage>@<version>
\* with nothing after the version.
C5_ResolutionFailureNotFatal ==
    [][ (last'.op = "register" /\ last'.resolved /\ last'.raised) =>
          LET n == NormOf(last')
          IN  /\ last'.ok <=> (template /\ n \notin DOMAIN pages)
              /\ index' = << Card(n, last'.pkg_name, Lower(
                                IF last'.version[1] \in {"v", "V"}
                                THEN Tail(last'.version) ELSE last'.version),
                              CardOf(index', n).description) >> \o index
              /\ last'.ok =>
                   /\ n \in DOMAIN pages'
                   /\ Len(pages'[n].versions) = 1
                   /\ pages'[n].versions[1].href
                        = <<"git+">> \o last'.homepage \o <<"@">> \o last'.version ]_vars

\* C5 witness: such a register has completed.
C5_Witness ==
    /\ last.op = "register" /\ last.resolved /\ last.raised /\ last.ok
    /\ NormOf(last) \in DOMAIN pages
    /\ pages[NormOf(last)].versions[1].href
         = <<"git+">> \o last.homepage \o <<"@">> \o last.version

\* C12 (as claimed): an update or a delete that fails (name not listed, page or
\* directory missing, no homepage on the page) leaves the index and every page
\* as they were.
C12_FailedCallChangesNothing ==
    [][ (last'.op \in {"update", "delete"} /\ ~ last'.ok) =>
          /\ index' = index
          /\ pages' = pages ]_vars

\* C13 (as claimed): after every call, failed or not, the index and the
\* directories agree: every card's href names a directory that holds a page, and
\* every directory that holds a page has a card.
C13_IndexAgreesWithDirectories ==
    last.op # "none" =>
        /\ \A i \in 1..Len(index) : \E n \in DOMAIN pages : index[i].href = n \o <<"/">>
        /\ \A n \in DOMAIN pages : package_exists(index, n)

(***************************************************************************)
(* The Artifact Resolver on its own                                        *)
(***************************************************************************)

\* what a resolver call for (homepage, version, pkg_name) leaves, r being its outcome;
\* again tells that the call before this one was the same call, answered the
\* same way by GitHub and the build, and returned
Resolution(env, homepage, version, pkg_name, r) ==
    /\ packages' = Put(packages, normalize(pkg_name), r.files)
    /\ res' = [repo_url |-> homepage, version |-> version, package_name |-> pkg_name,
               env |-> env, before |-> FilesIn(normalize(pkg_name)), out |-> r,
               again |-> IF res = Idle THEN FALSE
                         ELSE /\ res.repo_url = homepage /\ res.version = version
                              /\ res.package_name = pkg_name /\ res.env = env
                              /\ ~ res.out.raised,
               link |-> get_package_links(normalize(pkg_name), normalize_version(version),
                            version, IF r.raised THEN NoFiles(homepage) ELSE FilesOf(r))]

\* actions.py 102-111 and 133: one resolver call for (homepage, version, pkg_name)
\* into packages/<norm name>/, and the link its caller makes of the result
ResolveAndLink(env, homepage, version, pkg_name) ==
    Resolution(env, homepage, version, pkg_name,
        download_package_files(env, homepage, version, pkg_name,
            OutputDir(normalize(pkg_name)), FilesIn(normalize(pkg_name))))

Resolve ==
    /\ \E env \in Envs, homepage \in Homepages, version \in Versions, pkg_name \in PkgNames :
          ResolveAndLink(env, homepage, version, pkg_name)
    /\ UNCHANGED <<index, pages, template, last, nv, mig>>

InitResolve ==
    /\ index = <<>>
    /\ pages = <<>>
    /\ packages = <<>>
    /\ template = TRUE
    /\ last = NoCall
    /\ res = Idle
    /\ nv = Idle
    /\ mig = Idle

NextResolve == Resolve

SpecResolve == InitResolve /\ [][NextResolve]_vars

Called == res # Idle

\* the release the call's queries found: the first answer that is not a 404, if it is a 200
ReleaseFound(call) ==
    IF call.env.resp[1].code = "200" THEN call.env.resp[1]
    ELSE IF call.env.resp[1].code = "404" /\ call.env.resp[2].code = "200"
    THEN call.env.resp[2]
    ELSE NotFound

\* the other tag form of a version: without its leading "v", or with one added
AlternateTag(version) ==
    IF version # <<>> /\ version[1] = "v" THEN Tail(version) ELSE <<"v">> \o version

\* C6: the resolver queries the requested tag first; after a 404 it queries the
\* one alternate form (the leading "v" removed, or added) and nothing else; it
\* never makes more than two queries, and none after an answer other than 404.
C6_OneAlternateTag ==
    Called =>
        LET q == res.out.queries
        IN  /\ Len(q) \in {1, 2}
            /\ q[1] = res.version
            /\ res.env.resp[1].code = "404" <=> Len(q) = 2
            /\ Len(q) = 2 => q[2] = AlternateTag(res.version)

\* C6 witness: both tags were answered 404, for a version with the prefix.
C6_Witness ==
    /\ Called
    /\ res.version = <<"v", "2">>
    /\ res.env.resp[1].code = "404" /\ res.env.resp[2].code = "404"
    /\ res.out.queries = << <<"v", "2">>, <<"2">> >>

\* the release found holds a tarball and no wheel that names the package
TarballOnly(call) ==
    LET assets == ReleaseFound(call).assets
        wanted == [i \in 1..Len(call.package_name) |->
                     IF call.package_name[i] = "-" THEN "_" ELSE call.package_name[i]]
    IN  /\ ReleaseFound(call).code = "200"
        /\ \E i \in 1..Len(assets) : assets[i].name[Len(assets[i].name)] = ".tar.gz"
        /\ ~ \E i \in 1..Len(assets) :
               /\ assets[i].name[Len(assets[i].name)] = ".whl"
               /\ Contains(assets[i].name, wanted)

\* the call returned the tarball of the release, no wheel, built nothing, and the
\* link is the tarball's file name under the package's artifact directory
ReturnsTarball(call) ==
    LET n == normalize(call.package_name)
    IN  /\ ~ call.out.raised
        /\ call.out.wheel = None
        /\ call.out.tar_gz = <<"packages", "/">> \o n \o <<"/">> \o TarAsset.name
        /\ call.out.builds = 0
        /\ TarAsset.name \in packages[n]
        /\ call.link.href = <<"..", "/", "packages", "/">> \o n \o <<"/">> \o TarAsset.name

C10_AtMostOneBuild ==
    Called => res.out.builds <= 1

\* C11 (as claimed): a resolver call that directly follows the same call (same
\* repository, version and package name, same answers of GitHub and of the
\* build), which returned, downloads nothing and builds nothing.
C11_SecondResolveDoesNothing ==
    (Called /\ res.again) =>
        /\ res.out.downloads = <<>>
        /\ res.out.builds = 0

(***************************************************************************)
(* Version normalisation on its own                                        *)
(***************************************************************************)

\* the longest version string normalised
MaxLen == 3

VersionChars == {"v", "V", "1", "A"}

\* every string over VersionChars of length n
RECURSIVE StringsOfLen(_)
StringsOfLen(n) ==
    IF n = 0 THEN { <<>> }
    ELSE { <<c>> \o t : c \in VersionChars, t \in StringsOfLen(n - 1) }

VersionStrings == UNION { StringsOfLen(n) : n \in 0..MaxLen }

\* normalize_version applied to x, and again to the result
NormalizeTwice ==
    /\ nv.stage = "input"
    /\ nv' = [stage |-> "done", x |-> nv.x,
              once |-> normalize_version(nv.x),
              twice |-> normalize_version(normalize_version(nv.x))]
    /\ UNCHANGED <<index, pages, packages, template, last, res, mig>>

InitVersion ==
    /\ index = <<>>
    /\ pages = <<>>
    /\ packages = <<>>
    /\ template = TRUE
    /\ last = NoCall
    /\ res = Idle
    /\ nv \in [stage : {"input"}, x : VersionStrings, once : {None}, twice : {None}]
    /\ mig = Idle

NextVersion == NormalizeTwice

SpecVersion == InitVersion /\ [][NextVersion]_vars

IsV(c) == c \in {"v", "V"}

\* x in lower case, character by character
Lowered(x) ==
    [i \in 1..Len(x) |-> CASE x[i] = "V" -> "v" [] x[i] = "A" -> "a" [] OTHER -> x[i]]

\* C8 (as claimed): normalising a normalised version changes nothing.
C8_Idempotent ==
    nv.stage = "done" => nv.twice = nv.once

\* C8 (amended): normalize_version removes the leading "v" or "V" when there is
\* one, and only that one, and lowercases the rest; applying it again changes
\* nothing unless the string began with two of them.
C8_StripsOneAndIdempotentUnlessDoubled ==
    nv.stage = "done" =>
        /\ nv.once = IF nv.x # <<>> /\ IsV(nv.x[1])
                     THEN Lowered(Tail(nv.x)) ELSE Lowered(nv.x)
        /\ ~ (Len(nv.x) >= 2 /\ IsV(nv.x[1]) /\ IsV(nv.x[2])) => nv.twice = nv.once

\* C8 witness: a string with one leading "V" and an upper-case rest was normalised.
C8_Witness ==
    /\ nv.stage = "done"
    /\ nv.x = <<"V", "1", "A">>
    /\ nv.once = <<"1", "a">>
    /\ nv.twice = nv.once

(***************************************************************************)
(* migrate_packages.py: the Migrator                                       *)
(***************************************************************************)

\* migrate_packages.py 34-41: the homepage of the repoHomepage button, None without one
ExtractHomepage(page) ==
    LET onclick == page.homepage_onclick
    IN  IF /\ Len(onclick) >= 3
           /\ onclick[1] = "openLinkInNewTab('"
           /\ onclick[Len(onclick)] = "')"
        THEN SubSeq(onclick, 2, Len(onclick) - 1)
        ELSE None

\* the tokens of s before the first token that begins with "#"
RECURSIVE UpToHash(_)
UpToHash(s) ==
    IF s = <<>> \/ Head(s) = "#egg=" THEN <<>> ELSE <<Head(s)>> \o UpToHash(Tail(s))

\* migrate_packages.py 49-57: the version of a div, from its link or its id
ExtractVersion(div) ==
    LET k == FirstIndexOf(div.href, "@")
        m == UpToHash(SubSeq(div.href, k + 1, Len(div.href)))
    IN  IF k # 0 /\ m # <<>> THEN m ELSE div.id

\* migrate_packages.py 44-62: the divs that have an id and a link, by position
RECURSIVE VersionDivs(_, _)
VersionDivs(page, d) ==
    IF d > Len(page.versions) THEN <<>>
    ELSE IF /\ page.versions[d].id # None
            /\ page.versions[d].id # <<"versions">>
            /\ page.versions[d].href # None
         THEN <<d>> \o VersionDivs(page, d + 1)
         ELSE VersionDivs(page, d + 1)

\* migrate_packages.py 58-62: the version and the div of each entry kept
VersionInfos(page, divs) ==
    [k \in 1..Len(divs) |->
        [version |-> ExtractVersion(page.versions[divs[k]]), div |-> divs[k]]]

\* migrate_packages.py 18-70
extract_package_info_from_html(page) ==
    [package_name |-> page.name,
     homepage |-> ExtractHomepage(page),
     versions |-> VersionInfos(page, VersionDivs(page, 1))]

\* current_href.split('#egg=')[0]
BeforeEgg(href) ==
    LET k == FirstIndexOf(href, "#egg=")
    IN  IF k = 0 THEN href ELSE SubSeq(href, 1, k - 1)

\* migrate_packages.py 121-126 and 131-136 on the div at position d
RemoveEgg(st, d) ==
    IF FirstIndexOf(st.versions[d].href, "#egg=") # 0
    THEN [st EXCEPT !.versions[d].href = BeforeEgg(@), !.updated = TRUE]
    ELSE st

\* migrate_packages.py 103-136: the rest of the loop's body for the div at
\* position d, r being the outcome of the resolver call of line 99.
\* st.anchor is the div the local variable `anchor` is bound to, 0 while it is
\* unbound: line 104 binds it, after the resolver has returned.
MigrateResolved(st, d, norm_pkg_name, r) ==
    LET base_url == <<"..", "/", "packages", "/">> \o norm_pkg_name \o <<"/">>
    IN  IF ~ r.raised
        THEN IF r.wheel # None
             THEN [st EXCEPT !.files = r.files, !.processed = @ \union {d}, !.anchor = d,
                             !.versions[d].href = base_url \o Basename(r.wheel),
                             !.versions[d].title = Basename(r.wheel),
                             !.updated = TRUE]
             ELSE IF r.tar_gz # None
             THEN [st EXCEPT !.files = r.files, !.processed = @ \union {d}, !.anchor = d,
                             !.versions[d].href = base_url \o Basename(r.tar_gz),
                             !.versions[d].title = Basename(r.tar_gz),
                             !.updated = TRUE]
             ELSE RemoveEgg([st EXCEPT !.files = r.files, !.processed = @ \union {d},
                                       !.anchor = d], d)
        ELSE IF st.anchor = 0
             THEN [st EXCEPT !.files = r.files, !.processed = @ \union {d},
                             !.crashed = TRUE]
             ELSE RemoveEgg([st EXCEPT !.files = r.files, !.processed = @ \union {d}],
                            st.anchor)

\* migrate_packages.py 93-136: the body of the loop for the k-th version
MigrateVersion(st, info, envs, k, norm_pkg_name) ==
    MigrateResolved(st, info.versions[k].div, norm_pkg_name,
        download_package_files(envs[k], info.homepage, info.versions[k].version,
            info.package_name, OutputDir(norm_pkg_name), st.files))

\* migrate_packages.py 93-136: the loop, from the k-th version on
RECURSIVE MigrateLoop(_, _, _, _, _)
MigrateLoop(st, info, envs, k, norm_pkg_name) ==
    IF k > Len(info.versions) \/ st.crashed THEN st
    ELSE MigrateLoop(MigrateVersion(st, info, envs, k, norm_pkg_name),
                     info, envs, k + 1, norm_pkg_name)

\* migrate_packages.py 138-150: st is what the loop left
MigrateFinish(package_dir, envs, info, st) ==
    /\ mig' = [package_dir |-> package_dir, before |-> pages[package_dir], envs |-> envs,
               processed |-> st.processed,
               returned |-> (st.updated /\ ~ st.crashed)]
    /\ packages' = IF info.versions = <<>> THEN packages
                   ELSE Put(packages, normalize(info.package_name), st.files)
    /\ pages' = IF st.updated /\ ~ st.crashed
                THEN [pages EXCEPT ![package_dir].versions = st.versions]
                ELSE pages

\* migrate_packages.py 79-136, info being what line 81 extracted
MigrateInfo(package_dir, envs, info) ==
    IF info.homepage = None
    THEN /\ mig' = [package_dir |-> package_dir, before |-> pages[package_dir],
                    envs |-> <<>>, processed |-> {}, returned |-> FALSE]
         /\ UNCHANGED <<pages, packages>>
    ELSE MigrateFinish(package_dir, envs, info,
             MigrateLoop([versions |-> pages[package_dir].versions,
                          files |-> FilesIn(normalize(info.package_name)),
                          anchor |-> 0, updated |-> FALSE, crashed |-> FALSE,
                          processed |-> {}],
                         info, envs, 1, normalize(info.package_name)))

\* migrate_packages.py 73-150, for the package directory package_dir; envs[k] is
\* the environment of the resolver call for the k-th version
migrate_package(package_dir, envs) ==
    MigrateInfo(package_dir, envs, extract_package_info_from_html(pages[package_dir]))

\* the most version entries of a page to migrate
MaxLegacyEntries == 2

LegacyVersions == { <<"1">>, <<"v", "2">> }
LegacyName == <<"f", "-", "b">>
LegacyHomepage == <<"https:", "/", "/", "github.com", "/", "u", "/", "r">>

\* the div of a version as the pages had it before the artifact links
LegacyDiv(version) ==
    [id |-> version, class |-> <<>>,
     href |-> <<"git+">> \o LegacyHomepage \o <<"@">> \o version
              \o <<"#egg=">> \o LegacyName,
     text |-> version, title |-> None]

LegacyPage(versions, button) ==
    [name |-> LegacyName, latest |-> versions[Len(versions)], author |-> <<"ann">>,
     long_description |-> transform_github_url(LegacyHomepage),
     homepage_onclick |-> IF button
                          THEN <<"openLinkInNewTab('">> \o LegacyHomepage \o <<"')">>
                          ELSE None,
     latest_main |-> versions[Len(versions)],
     versions |-> [d \in 1..Len(versions) |-> LegacyDiv(versions[d])]]

LegacyPages ==
    { LegacyPage(vs, button) :
        vs \in UNION { [1..n -> LegacyVersions] : n \in 1..MaxLegacyEntries },
        button \in BOOLEAN }

Migrate ==
    /\ \E package_dir \in DOMAIN pages :
          \E envs \in [1..Len(pages[package_dir].versions) -> CallerEnvs] :
              migrate_package(package_dir, envs)
    /\ UNCHANGED <<index, template, last, res, nv>>

InitMigrate ==
    /\ \E page \in LegacyPages :
          /\ pages = Put(<<>>, LegacyName, page)
          /\ index = << Card(LegacyName, LegacyName,
                             normalize_version(page.latest), <<"d">>) >>
    /\ packages = <<>>
    /\ template = TRUE
    /\ last = NoCall
    /\ res = Idle
    /\ nv = Idle
    /\ mig = Idle

NextMigrate == Migrate

SpecMigrate == InitMigrate /\ [][NextMigrate]_vars

\* the resolver raises in this environment of the Migrator: no release, or a
\* release without assets, and a build that fails
ResolutionFails(env) ==
    /\ ~ env.builds[1].ok
    /\ \A i \in 1..2 : env.resp[i].assets = <<>>

\* the link without its "#egg=..." fragment
WithoutEgg(href) ==
    IF \E i \in 1..Len(href) : href[i] = "#egg="
    THEN SubSeq(href, 1, (CHOOSE i \in 1..Len(href) : href[i] = "#egg=") - 1)
    ELSE href

\* C9 (as claimed): after migrate_package, every version whose resolver call
\* fails has its own link without the egg fragment and otherwise as before, and
\* every other version was still processed: its link is an artifact link.
C9_FailedEntryLosesEgg ==
    (mig # Idle /\ mig.envs # <<>>) =>
        \A d \in 1..Len(mig.envs) :
            LET now == pages[mig.package_dir].versions[d].href
            IN  IF ResolutionFails(mig.envs[d])
                THEN now = WithoutEgg(mig.before.versions[d].href)
                ELSE now[1] = ".."

====
